---- MODULE Spec2Model ----
(***************************************************************************)
(* Model of the multimodal retrieval-and-generation turn of                *)
(* multimodal-rag-system.py: search_text_chunks, search_images, the two    *)
(* agent tools and generate_combined_response; and of the desktop          *)
(* retriever of retrival_research/GEMINI_final.py.                         *)
(*                                                                         *)
(* Python strings that the program builds with f-strings are modelled as   *)
(* sequences of string tokens; a dict is a function whose DOMAIN is the    *)
(* set of keys that are present.  The embedding model, the two indexes,    *)
(* the language model and the agent's reasoning are the environment: each  *)
(* of their calls either raises or returns a value drawn from a small set. *)
(***************************************************************************)
EXTENDS Integers, Sequences, FiniteSets, TLC

\* ------------------------------------------------------------------ bounds
\* Largest number of hits one index query returns in the model.
MaxHits == 2
\* Longest vector and largest target dimension pad_or_truncate is given.
MaxLen == 3
MaxDim == 4
\* Most words in a query given to preprocess_query.
MaxWords == 3
\* Most queries submitted to the chat in one session.
MaxTurns == 2

\* ------------------------------------------------------- program constants
\* max_iterations of the fallback agent.
MaxIterations == 3
\* Length of the caption prefix the prompt keeps ([:100]).
CaptionLimit == 100
\* top_k of search_images, handed to search_images_by_text.
TopK == 3

\* ------------------------------------------------------------ Python values
\* Python's None, as a value a dict may hold.
NoneVal == "<None>"

\* A call's outcome: a returned value, or an exception leaving the callee.
Ret(v) == [raised |-> FALSE, value |-> v]
Exc == [raised |-> TRUE, value |-> <<>>]

\* dict.get(key, default)
Get(d, k, default) == IF k \in DOMAIN d THEN d[k] ELSE default

\* Truth value of what match.get("image") yields: None is falsy, an image
\* object is truthy.
Truthy(v) == v # NoneVal

\* The concatenation of a sequence of token sequences with sep between them
\* (str.join).
RECURSIVE Join(_, _)
Join(parts, sep) ==
  IF Len(parts) = 0 THEN <<>>
  ELSE IF Len(parts) = 1 THEN parts[1]
  ELSE parts[1] \o sep \o Join(Tail(parts), sep)

\* str(i) for the list positions and digits the program prints.
Str(i) == <<"0", "1", "2", "3", "4", "5", "6", "7", "8", "9">>[i + 1]

\* ---------------------------------------------------- environment: queries
Queries == {"What is gradient descent?", "What is backpropagation?"}

\* --------------------------------------------- environment: the text index
\* Documents of the text collection: one with full metadata (lecture 3),
\* one whose metadata holds only its source.
DocFull ==
  [page_content |-> "Gradient descent follows the negative gradient.",
   metadata |-> [source |-> "lecture3.pdf", page |-> "12",
                 module_code |-> "CS101", module_name |-> "Machine Learning",
                 lecture_number |-> "3", lecture_title |-> "Optimisation"]]
DocBare ==
  [page_content |-> "A chunk without lecture metadata.",
   metadata |-> [source |-> "notes.pdf"]]
Docs == {DocFull, DocBare}

\* All sequences over S of length at most n.
SeqsUpTo(S, n) == UNION {[1..k -> S] : k \in 0..n}

\* What the three steps of a text search can do: the embedding model, the
\* connection or the similarity query raises, or the query returns documents.
TextStages == {"embeddings", "connect", "similarity_search"}
TextEnvs ==
  [failed : TextStages, docs : {<<>>}]
  \cup [failed : {"none"}, docs : SeqsUpTo(Docs, MaxHits)]

\* -------------------------------------------- environment: the image index
\* The caption of an indexed image that is longer than CaptionLimit
\* characters, and its first CaptionLimit characters.
LongCaption == "Plot of the loss surface with the descent path ... (140 chars)"
LongCaptionPrefix == "Plot of the loss surface with the descent path ... (100 chars)"
ShortCaption == "Loss curve"

\* Candidates search_images_by_text can return: a complete one (lecture 3,
\* page 12), one without an image payload, one whose payload cannot be
\* saved as PNG, and one with a payload and a score but no metadata at all.
\* similarity_score is held in hundredths.
CandFull ==
  [image |-> "png_gradient", similarity_score |-> 90, lecture_code |-> "CS101",
   lecture_number |-> "3", lecture_title |-> "Optimisation",
   page_number |-> "12", text |-> LongCaption]
CandNoPayload ==
  [similarity_score |-> 70, lecture_code |-> "CS101", lecture_number |-> "4",
   lecture_title |-> "Backpropagation", page_number |-> "7",
   text |-> ShortCaption]
CandCorrupt ==
  [image |-> "corrupt", similarity_score |-> 50, lecture_code |-> "CS101",
   lecture_number |-> "5", lecture_title |-> "Regularisation",
   page_number |-> "2", text |-> ShortCaption]
CandBare == [image |-> "png_untagged", similarity_score |-> 30]
Candidates == {CandFull, CandNoPayload, CandCorrupt, CandBare}

\* search_images_by_text raises, or returns a sequence of candidates.
ImageEnvs ==
  {Exc} \cup {Ret(m) : m \in SeqsUpTo(Candidates, MaxHits)}

\* Image.save(buffer, format="PNG") followed by base64: raises on a payload
\* that cannot be encoded, else yields the encoded string.
CanEncode(image) == image # "corrupt"
EncodePng(image) == <<"base64", image>>

\* ---------------------------------------------------------- search_text_chunks
\* A mutant: a missing lecture number is left empty.
TextResultEmptyLecture(doc) ==
  [content |-> doc.page_content,
   source |-> Get(doc.metadata, "source", "Unknown"),
   page |-> Get(doc.metadata, "page", "Unknown"),
   module_code |-> Get(doc.metadata, "module_code", "Unknown"),
   module_name |-> Get(doc.metadata, "module_name", "Unknown"),
   lecture_number |-> Get(doc.metadata, "lecture_number", ""),
   lecture_title |-> Get(doc.metadata, "lecture_title", "Unknown")]

\* One formatted result per document, every metadata field defaulted.
TextResult(doc) ==
  [content |-> doc.page_content,
   source |-> Get(doc.metadata, "source", "Unknown"),
   page |-> Get(doc.metadata, "page", "Unknown"),
   module_code |-> Get(doc.metadata, "module_code", "Unknown"),
   module_name |-> Get(doc.metadata, "module_name", "Unknown"),
   lecture_number |-> Get(doc.metadata, "lecture_number", "Unknown"),
   lecture_title |-> Get(doc.metadata, "lecture_title", "Unknown")]

\* A mutant: the except clause is missing.
search_text_chunks_unguarded(env) ==
  IF env.failed # "none" THEN Exc
  ELSE Ret([i \in 1..Len(env.docs) |-> TextResult(env.docs[i])])

\* The whole function: any exception of its three steps is caught and the
\* empty list returned.
search_text_chunks(env) ==
  IF env.failed # "none" THEN Ret(<<>>)
  ELSE Ret([i \in 1..Len(env.docs) |-> TextResult(env.docs[i])])

\* --------------------------------------------------------------- search_images
\* A mutant: the page number is read with match["page_number"]'s value
\* or None, without the "Unknown" default.
ImageResultPageNone(match) ==
  [image_data |-> EncodePng(match["image"]),
   similarity_score |-> Get(match, "similarity_score", 0),
   lecture_code |-> Get(match, "lecture_code", "Unknown"),
   lecture_number |-> Get(match, "lecture_number", "Unknown"),
   lecture_title |-> Get(match, "lecture_title", "Unknown"),
   page_number |-> Get(match, "page_number", NoneVal),
   text |-> Get(match, "text", "No text available")]

\* The dictionary built for a match whose payload was encoded.
ImageResult(match) ==
  [image_data |-> EncodePng(match["image"]),
   similarity_score |-> Get(match, "similarity_score", 0),
   lecture_code |-> Get(match, "lecture_code", "Unknown"),
   lecture_number |-> Get(match, "lecture_number", "Unknown"),
   lecture_title |-> Get(match, "lecture_title", "Unknown"),
   page_number |-> Get(match, "page_number", "Unknown"),
   text |-> Get(match, "text", "No text available")]

\* A mutant: the first match without a usable payload ends the loop.
RECURSIVE FormatMatchesStopAtBad(_, _, _)
FormatMatchesStopAtBad(matches, i, results) ==
  IF i > Len(matches) THEN results
  ELSE IF ~Truthy(Get(matches[i], "image", NoneVal)) THEN results
  ELSE IF ~CanEncode(matches[i]["image"]) THEN results
  ELSE FormatMatchesStopAtBad(matches, i + 1,
                              Append(results, ImageResult(matches[i])))

\* A mutant: each formatted match is put at the front of the list.
RECURSIVE FormatMatchesPrepends(_, _, _)
FormatMatchesPrepends(matches, i, results) ==
  IF i > Len(matches) THEN results
  ELSE IF ~Truthy(Get(matches[i], "image", NoneVal))
    THEN FormatMatchesPrepends(matches, i + 1, results)
  ELSE IF ~CanEncode(matches[i]["image"])
    THEN FormatMatchesPrepends(matches, i + 1, results)
  ELSE FormatMatchesPrepends(matches, i + 1,
                             <<ImageResult(matches[i])>> \o results)

\* The for loop over the matches: a match without a payload is skipped
\* (continue), a match whose encoding raises is skipped by the inner except,
\* every other match is appended.
RECURSIVE FormatMatches(_, _, _)
FormatMatches(matches, i, results) ==
  IF i > Len(matches) THEN results
  ELSE IF ~Truthy(Get(matches[i], "image", NoneVal))
    THEN FormatMatches(matches, i + 1, results)
  ELSE IF ~CanEncode(matches[i]["image"])
    THEN FormatMatches(matches, i + 1, results)
  ELSE FormatMatches(matches, i + 1, Append(results, ImageResult(matches[i])))

\* The whole function: an exception of the underlying search is caught by
\* the outer except and the empty list returned.
search_images(env) ==
  IF env.raised THEN Ret(<<>>)
  ELSE Ret(FormatMatches(env.value, 1, <<>>))

\* ------------------------------------------------------------ string pieces
\* text[:CaptionLimit] on the captions of the model: only LongCaption is
\* longer than the limit.
CaptionLength(t) == IF t = LongCaption THEN 140 ELSE 20
Prefix(t, n) == IF CaptionLength(t) > n THEN LongCaptionPrefix ELSE t

NoTextFound == "No relevant text information found."
NoImagesFound == "No relevant images found."

\* ------------------------------------------------- the prompt (lines 288-323)
\* One entry of the Text Context block.
TextContextEntry(result) ==
  <<"Source: ", result.module_code, ", Lecture ",
    Get(result, "lecture_number", "Unknown"), ", Page ", result.page,
    "\nContent: ", result.content>>

\* text_context: empty for no results, else the entries joined by a blank line.
TextContext(text_results) ==
  IF Len(text_results) = 0 THEN <<>>
  ELSE Join([i \in 1..Len(text_results) |-> TextContextEntry(text_results[i])],
            <<"\n\n">>)

\* A mutant: the images are numbered from 0 (i instead of i+1).
ImageContextEntryFromZero(img, i) ==
  <<"Image ", Str(i - 1), ": From ", Get(img, "lecture_code", "Unknown"),
    ", Lecture ", Get(img, "lecture_number", "Unknown"),
    ", Page ", Get(img, "page_number", "Unknown"),
    " - Related to: ", Prefix(Get(img, "text", ""), CaptionLimit), "...\n">>

\* One entry of the Image References block; i is the 1-based position
\* (enumerate's index plus one).
ImageContextEntry(img, i) ==
  <<"Image ", Str(i), ": From ", Get(img, "lecture_code", "Unknown"),
    ", Lecture ", Get(img, "lecture_number", "Unknown"),
    ", Page ", Get(img, "page_number", "Unknown"),
    " - Related to: ", Prefix(Get(img, "text", ""), CaptionLimit), "...\n">>

\* image_context: empty for no results, else the entries joined by newlines.
ImageContext(image_results) ==
  IF Len(image_results) = 0 THEN <<>>
  ELSE Join([i \in 1..Len(image_results) |->
               ImageContextEntry(image_results[i], i)], <<"\n">>)

\* A mutant: an empty context is put into the prompt as it is.
OrSentinelMissing(context, sentinel) == context

\* `context if context else sentinel`
OrSentinel(context, sentinel) ==
  IF context # <<>> THEN context ELSE <<sentinel>>

\* The numbered directives that follow the INSTRUCTIONS: line.
Directives ==
  <<"1. Based on the provided context, answer the user's query thoroughly.",
    "2. ALWAYS cite the specific lecture numbers when providing information (e.g., \"As explained in Lecture 3...\" or \"According to Lecture 5...\").",
    "3. If there are relevant images that would help illustrate your answer, mention them by referring to their number and lecture (e.g., \"As shown in Image 1 from Lecture 2...\").",
    "4. Make the lecture number references a natural part of your answer, not just citations at the end.",
    "5. If the lecture number is unknown for some sources, you can mention this (e.g., \"from an unspecified lecture\").">>

\* A mutant: with nothing retrieved, only the first directive is kept.
BuildPromptShortWhenEmpty(q, text_context, image_context) ==
  <<"User Query: ", q, "Text Context:">>
  \o OrSentinel(text_context, NoTextFound)
  \o <<"Image References:">>
  \o OrSentinel(image_context, NoImagesFound)
  \o <<"INSTRUCTIONS:">>
  \o (IF text_context = <<>> /\ image_context = <<>>
      THEN SubSeq(Directives, 1, 1) ELSE Directives)

\* A mutant: the prompt leaves out the user's query.
BuildPromptNoQuery(q, text_context, image_context) ==
  <<"User Query: ", "", "Text Context:">>
  \o OrSentinel(text_context, NoTextFound)
  \o <<"Image References:">>
  \o OrSentinel(image_context, NoImagesFound)
  \o <<"INSTRUCTIONS:">>
  \o Directives

\* The f-string of lines 308-323.
BuildPrompt(q, text_context, image_context) ==
  <<"User Query: ", q, "Text Context:">>
  \o OrSentinel(text_context, NoTextFound)
  \o <<"Image References:">>
  \o OrSentinel(image_context, NoImagesFound)
  \o <<"INSTRUCTIONS:">>
  \o Directives

\* The prompt of the LLM self-test and the agent's instruction.
TestPrompt == <<"Hello, are you working properly?">>
AgentPrompt(q) ==
  <<"Please answer this query, and make sure to reference the specific lecture numbers when providing information: ", q>>

\* ------------------------------------------- environment: the language model
\* What llm.invoke(prompt).content can be, and what agent.run can return:
\* the agent's final answer, or the executor's message when max_iterations
\* is used up.
DirectOutputs == {"Gradient descent is explained in Lecture 3.", "I do not know."}
AgentFinalAnswer == "According to Lecture 3, gradient descent minimises the loss."
AgentStopped == "Agent stopped due to iteration limit or time limit."

\* ------------------------------------------ generate_combined_response: returns
ApologyGenerating ==
  "I encountered an error while generating an answer. Please try again or rephrase your question."
ApologyProcessing ==
  "I encountered an error while processing your query. Please try again or rephrase your question."

\* The value of response while no return statement has run.
NoResponse == [none |-> TRUE]

\* A mutant: the direct return announces images whatever the list holds.
DirectReturnAlwaysImages(content, images, q) ==
  [answer_text |-> content, image_results |-> images,
   has_images |-> TRUE, original_query |-> q]

\* return of lines 331-336
DirectReturn(content, images, q) ==
  [answer_text |-> content, image_results |-> images,
   has_images |-> Len(images) > 0, original_query |-> q]

\* A mutant: the agent tier returns the images its ImageSearch tool fetched.
AgentReturnToolImages(agent_response, images, fetched, q) ==
  [answer_text |-> agent_response, image_results |-> fetched,
   has_images |-> Len(fetched) > 0, original_query |-> q]

\* return of lines 362-367; fetched is what the agent's ImageSearch tool got
\* last, which the function never reads.
AgentReturn(agent_response, images, fetched, q) ==
  [answer_text |-> agent_response, image_results |-> images,
   has_images |-> Len(images) > 0, original_query |-> q]

\* A mutant: the apology of the inner handler forgets the images.
InnerExceptNoImages(images, q) ==
  [answer_text |-> ApologyGenerating, image_results |-> <<>>,
   has_images |-> FALSE, original_query |-> q]

\* A mutant: the apology of the inner handler quotes the query.
InnerExceptQuotesQuery(images, q) ==
  [answer_text |-> q, image_results |-> images,
   has_images |-> Len(images) > 0, original_query |-> q]

\* return of lines 370-375 (except Exception as agent_error)
InnerExcept(images, q) ==
  [answer_text |-> ApologyGenerating, image_results |-> images,
   has_images |-> Len(images) > 0, original_query |-> q]

\* A mutant: the outer handler logs and re-raises.
OuterExceptReraises(q) ==
  [pc |-> "raised", line |-> 0, response |-> NoResponse]

\* except Exception as e of lines 376-387: where control goes, the return
\* statement that runs and what it returns.
OuterExcept(q) ==
  [pc |-> "returned", line |-> 382,
   response |-> [answer_text |-> ApologyProcessing, image_results |-> <<>>,
                 has_images |-> FALSE, original_query |-> q]]

\* A mutant: the agent tier is entered whatever the direct call did.
AfterDirectAlwaysAgent(raised) == "agent_init"

\* Where control goes after llm.invoke(prompt): to the return of line 331,
\* or into the handler of line 337 that starts the agent.
AfterDirect(raised) == IF raised THEN "agent_init" ELSE "returned"

\* ------------------------------------------------------------------- state
VARIABLES
  pc,            \* where generate_combined_response is
  query,         \* its argument
  textIndex,     \* what the steps of the text search did in this turn
  matches,       \* inside search_images: what search_images_by_text did
  results,       \* inside search_images: what the function is about to return
  text_results,  \* the local text_results
  image_results, \* the local image_results
  prompt,        \* the local prompt
  iterations,    \* tool calls the agent has made
  agentImages,   \* what the agent's ImageSearch tool fetched last
  calls,         \* the calls made in this turn, in order
  returnLine,    \* the line of the return statement that ran, 0 if none
  response,      \* the returned dictionary
  apologiesSeen  \* answer_text of every return so far that held no model answer

\* The state of generate_combined_response and its callees.
ragVars == <<pc, query, textIndex, matches, results, text_results,
             image_results, prompt, iterations, agentImages, calls, returnLine,
             response, apologiesSeen>>

\* A call of pad_or_truncate (GEMINI_final.py).
VARIABLES
  pad_pc,        \* "idle", or "returned" once the call has returned
  vector,        \* its argument vector
  target_dim,    \* its argument target_dim
  padded,        \* the list it returned
  padSeen        \* the branches taken by the calls so far

padVars == <<pad_pc, vector, target_dim, padded, padSeen>>

\* preprocess_query (GEMINI_final.py) applied to a query and then to its
\* own output.
VARIABLES
  norm_pc,       \* "idle", "once" or "twice"
  raw_query,     \* the query, as its words in order
  once,          \* preprocess_query(raw_query)
  twice          \* preprocess_query(once)

normVars == <<norm_pc, raw_query, once, twice>>

\* The chat session of multimodal-rag-system.py: st.session_state.messages
\* and the script run that handles the chat input.
VARIABLES
  messages,      \* st.session_state.messages
  ui_pc,         \* "idle" between script runs, or where the chat handler is:
                 \* "generating" (line 601), "returned" (before line 604),
                 \* "appended" (before line 607)
  chat_prompt,   \* the handler's prompt
  chat_response, \* the handler's response
  rerun,         \* the rerun the browser has requested: "none", "clear"
                 \* (the button) or "toggle" (a checkbox of the sidebar)
  clickedIn,     \* ui_pc when Clear Chat History was last clicked
  stoppedAt,     \* the line at which a rerun request stopped the last run
  turns,         \* queries submitted so far
  lastEvent,     \* what the session did last
  submitted,     \* the queries submitted since the last reset, in order
  interrupted    \* a rerun request stopped a handler run since the last reset

sessionVars == <<messages, ui_pc, chat_prompt, chat_response, rerun, clickedIn,
                 stoppedAt, turns, lastEvent, submitted, interrupted>>

\* One click of Submit in the desktop retriever (GEMINI_final.py):
\* submit_query and the perform_search it calls.
VARIABLES
  d_pc,          \* where submit_query is; "escaped" once an exception left it
  d_query,       \* query, as its words
  d_preprocessed,\* perform_search's preprocessed_query
  d_failed,      \* the step of perform_search that raised, "none" if none
  d_exception,   \* the exception that step raised, "none" if none
  d_results,     \* submit_query's results
  d_tree,        \* the rows of result_tree
  d_answer,      \* the text of llm_output_text
  d_dialog       \* the message box shown last, "none" if none

desktopVars == <<d_pc, d_query, d_preprocessed, d_failed, d_exception,
                 d_results, d_tree, d_answer, d_dialog>>

vars == <<ragVars, padVars, normVars, sessionVars, desktopVars>>

\* Everything outside generate_combined_response.
nonRagVars == <<padVars, normVars, sessionVars, desktopVars>>

\* The desktop window before a click: the tree and the answer box keep what
\* the last click left in them.
DesktopIdle ==
  /\ d_pc = "idle"
  /\ d_query = <<>>
  /\ d_preprocessed = <<>>
  /\ d_failed = "none"
  /\ d_exception = "none"
  /\ d_results = <<>>
  /\ d_dialog = "none"

\* Lines 83-86: the history a new session gets.
InitialMessages ==
  <<[role |-> "system",
     content |-> "I am a multimodal assistant that can help you find information from both text and images in your documents."]>>

\* A session that has just been created.
SessionStart ==
  /\ messages = InitialMessages
  /\ ui_pc = "idle"
  /\ chat_prompt = ""
  /\ chat_response = NoResponse
  /\ rerun = "none"
  /\ clickedIn = "none"
  /\ stoppedAt = 0
  /\ turns = 0
  /\ lastEvent = "start"
  /\ submitted = <<>>
  /\ interrupted = FALSE

\* preprocess_query is not being applied.
NormIdle ==
  /\ norm_pc = "idle"
  /\ raw_query = <<>>
  /\ once = <<>>
  /\ twice = <<>>

\* No call of pad_or_truncate is under way.
PadIdle ==
  /\ pad_pc = "idle"
  /\ vector = <<>>
  /\ target_dim = 0
  /\ padded = <<>>

\* One entry of calls.
CallRec(op, arg, raised, value) ==
  [op |-> op, arg |-> arg, raised |-> raised, value |-> value]

RagIdle ==
  /\ pc = "idle"
  /\ query = ""
  /\ textIndex = [failed |-> "none", docs |-> <<>>]
  /\ matches = Ret(<<>>)
  /\ results = Ret(<<>>)
  /\ text_results = <<>>
  /\ image_results = <<>>
  /\ prompt = <<>>
  /\ iterations = 0
  /\ agentImages = <<>>
  /\ calls = <<>>
  /\ returnLine = 0
  /\ response = NoResponse
  /\ apologiesSeen = {}

Init ==
  /\ RagIdle
  /\ PadIdle /\ padSeen = {}
  /\ NormIdle
  /\ SessionStart
  /\ DesktopIdle /\ d_tree = <<>> /\ d_answer = ""

\* The caller (line 601) calls generate_combined_response(q).
Call(q) ==
  /\ pc = "idle"
  /\ pc' = "get_llm"
  /\ query' = q
  /\ UNCHANGED <<textIndex, matches, results, text_results, image_results, prompt, iterations,
                 agentImages, calls, returnLine, response, apologiesSeen>>
  /\ UNCHANGED nonRagVars

\* An exception reaches the outer handler.
ToOuterExcept ==
  LET h == OuterExcept(query)
  IN /\ pc' = h.pc
     /\ returnLine' = h.line
     /\ response' = h.response

\* llm = get_llm() (line 259)
GetLlm ==
  /\ pc = "get_llm"
  /\ \E raised \in BOOLEAN :
       /\ calls' = Append(calls, CallRec("get_llm", <<>>, raised, ""))
       /\ IF raised THEN ToOuterExcept
          ELSE pc' = "test_llm" /\ UNCHANGED <<returnLine, response>>
  /\ UNCHANGED <<query, textIndex, matches, results, text_results, image_results,
                 prompt, iterations, agentImages, apologiesSeen>>
  /\ UNCHANGED nonRagVars

\* The self-test of lines 262-268: its handler re-raises.
TestLlm ==
  /\ pc = "test_llm"
  /\ \E raised \in BOOLEAN :
       /\ calls' = Append(calls, CallRec("llm.invoke", TestPrompt, raised,
                                         IF raised THEN "" ELSE "Yes."))
       /\ IF raised THEN ToOuterExcept
          ELSE pc' = "search_text" /\ UNCHANGED <<returnLine, response>>
  /\ UNCHANGED <<query, textIndex, matches, results, text_results, image_results,
                 prompt, iterations, agentImages, apologiesSeen>>
  /\ UNCHANGED nonRagVars

\* text_results = search_text_chunks(query) (line 285); the steps of the
\* search do what the embedding model and the text index make them do.
SearchText ==
  /\ pc = "search_text"
  /\ \E env \in TextEnvs :
       LET r == search_text_chunks(env)
       IN /\ textIndex' = env
          /\ calls' = Append(calls, CallRec("search_text_chunks", <<query>>,
                                            r.raised, r.value))
          /\ IF r.raised
             THEN ToOuterExcept /\ UNCHANGED text_results
             ELSE /\ text_results' = r.value
                  /\ pc' = "search_images"
                  /\ UNCHANGED <<returnLine, response>>
  /\ UNCHANGED <<query, matches, results, image_results, prompt,
                 iterations, agentImages, apologiesSeen>>
  /\ UNCHANGED nonRagVars

\* search_images(query) is called (line 286) and runs up to its return.
SearchImagesBody ==
  /\ pc = "search_images"
  /\ \E env \in ImageEnvs :
       /\ matches' = env
       /\ results' = search_images(env)
  /\ pc' = "search_images_done"
  /\ UNCHANGED <<query, textIndex, text_results, image_results, prompt,
                 iterations, agentImages, calls, returnLine, response,
                 apologiesSeen>>
  /\ UNCHANGED nonRagVars

\* search_images returns into image_results (line 286); its locals are gone.
SearchImagesReturn ==
  /\ pc = "search_images_done"
  /\ calls' = Append(calls, CallRec("search_images", <<query>>,
                                    results.raised, results.value))
  /\ IF results.raised
     THEN ToOuterExcept /\ UNCHANGED image_results
     ELSE /\ image_results' = results.value
          /\ pc' = "build_prompt"
          /\ UNCHANGED <<returnLine, response>>
  /\ matches' = Ret(<<>>)
  /\ results' = Ret(<<>>)
  /\ UNCHANGED <<query, textIndex, text_results, prompt, iterations,
                 agentImages, apologiesSeen>>
  /\ UNCHANGED nonRagVars

\* Lines 288-323: the two contexts and the prompt.
FormatPrompt ==
  /\ pc = "build_prompt"
  /\ prompt' = BuildPrompt(query, TextContext(text_results),
                           ImageContext(image_results))
  /\ pc' = "direct"
  /\ UNCHANGED <<query, textIndex, matches, results, text_results, image_results,
                 iterations, agentImages, calls, returnLine, response,
                 apologiesSeen>>
  /\ UNCHANGED nonRagVars

\* response = llm.invoke(prompt) and the return of line 331, or the
\* exception that enters the handler of line 337.
DirectOk ==
  /\ pc = "direct"
  /\ \E content \in DirectOutputs :
       /\ calls' = Append(calls, CallRec("llm.invoke", prompt, FALSE, content))
       /\ response' = DirectReturn(content, image_results, query)
  /\ returnLine' = 331
  /\ pc' = AfterDirect(FALSE)
  /\ UNCHANGED <<query, textIndex, matches, results, text_results, image_results,
                 prompt, iterations, agentImages, apologiesSeen>>
  /\ UNCHANGED nonRagVars

DirectRaises ==
  /\ pc = "direct"
  /\ calls' = Append(calls, CallRec("llm.invoke", prompt, TRUE, ""))
  /\ pc' = AfterDirect(TRUE)
  /\ UNCHANGED <<query, textIndex, matches, results, text_results, image_results,
                 prompt, iterations, agentImages, returnLine, response,
                 apologiesSeen>>
  /\ UNCHANGED nonRagVars

\* The return of the inner handler.
ToInnerExcept ==
  /\ response' = InnerExcept(image_results, query)
  /\ returnLine' = 370
  /\ pc' = "returned"

\* Lines 344-355: the memory and initialize_agent.
AgentInit ==
  /\ pc = "agent_init"
  /\ \E raised \in BOOLEAN :
       /\ calls' = Append(calls, CallRec("initialize_agent", <<>>, raised, ""))
       /\ IF raised THEN ToInnerExcept
          ELSE pc' = "agent_run" /\ UNCHANGED <<returnLine, response>>
  /\ iterations' = 0
  /\ UNCHANGED <<query, textIndex, matches, results, text_results, image_results,
                 prompt, agentImages, apologiesSeen>>
  /\ UNCHANGED nonRagVars

\* agent.run: the agent's model call raises, which ends agent.run with
\* the exception.
AgentRaises ==
  /\ pc = "agent_run"
  /\ iterations < MaxIterations
  /\ calls' = Append(calls, CallRec("agent.run", AgentPrompt(query), TRUE, ""))
  /\ ToInnerExcept
  /\ UNCHANGED <<query, textIndex, matches, results, text_results, image_results,
                 prompt, iterations, agentImages, apologiesSeen>>
  /\ UNCHANGED nonRagVars

\* What one call of search_images can return to the image tool.
ToolFetches == {search_images(env).value : env \in ImageEnvs}

\* agent.run: the agent calls its TextSearch tool (text_search_tool), whose
\* formatted output goes to the agent and to nothing else.
AgentTextSearch ==
  /\ pc = "agent_run"
  /\ iterations < MaxIterations
  /\ iterations' = iterations + 1
  /\ UNCHANGED <<pc, query, textIndex, matches, results, text_results,
                 image_results, prompt, agentImages, calls, returnLine,
                 response, apologiesSeen>>
  /\ UNCHANGED nonRagVars

\* agent.run: the agent calls its ImageSearch tool (image_search_tool), which
\* runs search_images again on whatever the index holds for the tool's query;
\* results is a local of the tool.
AgentImageSearch ==
  /\ pc = "agent_run"
  /\ iterations < MaxIterations
  /\ agentImages' \in ToolFetches
  /\ iterations' = iterations + 1
  /\ UNCHANGED <<pc, query, textIndex, matches, results, text_results,
                 image_results, prompt, calls, returnLine, response,
                 apologiesSeen>>
  /\ UNCHANGED nonRagVars

\* agent.run returns: the agent's final answer, or the executor's message
\* once max_iterations tool calls are used up; then the return of line 362.
AgentReturns ==
  /\ pc = "agent_run"
  /\ LET out == IF iterations < MaxIterations THEN AgentFinalAnswer
                ELSE AgentStopped
     IN /\ calls' = Append(calls, CallRec("agent.run", AgentPrompt(query),
                                          FALSE, out))
        /\ response' = AgentReturn(out, image_results, agentImages, query)
  /\ returnLine' = 362
  /\ pc' = "returned"
  /\ UNCHANGED <<query, textIndex, matches, results, text_results, image_results,
                 prompt, iterations, agentImages, apologiesSeen>>
  /\ UNCHANGED nonRagVars

\* The caller receives the dictionary; the locals of the call are gone.
Return ==
  /\ pc = "returned"
  /\ pc' = "idle"
  /\ apologiesSeen' =
       IF returnLine \in {370, 382}
       THEN apologiesSeen \cup {response.answer_text}
       ELSE apologiesSeen
  /\ query' = ""
  /\ textIndex' = [failed |-> "none", docs |-> <<>>]
  /\ matches' = Ret(<<>>)
  /\ results' = Ret(<<>>)
  /\ text_results' = <<>>
  /\ image_results' = <<>>
  /\ prompt' = <<>>
  /\ iterations' = 0
  /\ agentImages' = <<>>
  /\ calls' = <<>>
  /\ returnLine' = 0
  /\ response' = NoResponse
  /\ UNCHANGED nonRagVars

Next ==
  \/ \E q \in Queries : Call(q)
  \/ GetLlm
  \/ TestLlm
  \/ SearchText
  \/ SearchImagesBody
  \/ SearchImagesReturn
  \/ FormatPrompt
  \/ DirectOk
  \/ DirectRaises
  \/ AgentInit
  \/ AgentRaises
  \/ AgentTextSearch
  \/ AgentImageSearch
  \/ AgentReturns
  \/ Return

Spec == Init /\ [][Next]_vars

\* ------------------------------------------- pad_or_truncate (GEMINI_final)
\* The values a vector's components take; 0 stands for 0.0.
Components == {0, 1, 2}

\* [0.0] * n
Zeros(n) == [i \in 1..n |-> 0]

\* A mutant: the zeros are put in front of the vector.
pad_or_truncate_front(v, d) ==
  IF Len(v) > d THEN SubSeq(v, 1, d)
  ELSE Zeros(d - Len(v)) \o v

\* pad_or_truncate(vector, target_dim), lines 61-64.
pad_or_truncate(v, d) ==
  IF Len(v) > d THEN SubSeq(v, 1, d)
  ELSE v \o Zeros(d - Len(v))

\* The branch a call takes.
PadBranch(v, d) ==
  IF Len(v) > d THEN "truncated"
  ELSE IF Len(v) < d THEN "padded" ELSE "unchanged"

\* pad_or_truncate(v, d) is called and returns.
PadCall(v, d) ==
  /\ pad_pc = "idle"
  /\ vector' = v
  /\ target_dim' = d
  /\ padded' = pad_or_truncate(v, d)
  /\ padSeen' = padSeen \cup {PadBranch(v, d)}
  /\ pad_pc' = "returned"
  /\ UNCHANGED <<ragVars, normVars, sessionVars, desktopVars>>

\* The caller takes the list; the call's locals are gone.
PadDone ==
  /\ pad_pc = "returned"
  /\ pad_pc' = "idle"
  /\ vector' = <<>>
  /\ target_dim' = 0
  /\ padded' = <<>>
  /\ UNCHANGED <<padSeen, ragVars, normVars, sessionVars, desktopVars>>

InitPad ==
  /\ RagIdle
  /\ PadIdle /\ padSeen = {}
  /\ NormIdle
  /\ SessionStart
  /\ DesktopIdle /\ d_tree = <<>> /\ d_answer = ""

NextPad ==
  \/ \E v \in SeqsUpTo(Components, MaxLen), d \in 0..MaxDim : PadCall(v, d)
  \/ PadDone

SpecPad == InitPad /\ [][NextPad]_vars

\* ------------------------------------------- preprocess_query (GEMINI_final)
\* A query is the sequence of the words word_tokenize finds in it; the string
\* " ".join builds from alphanumeric words is tokenized back into those words.
Words == {"Gradient", "the", "cans", "can", "descents", "?"}

\* str.lower
Lower(w) == IF w = "Gradient" THEN "gradient" ELSE w

\* str.isalnum
IsAlnum(w) == w # "?"

\* The words of stopwords.words("english") among the words of the model.
StopWords == {"the", "can"}

\* WordNetLemmatizer.lemmatize: a plural noun goes to its singular.
Lemmatize(w) ==
  CASE w = "cans" -> "can"
    [] w = "descents" -> "descent"
    [] OTHER -> w

\* The list comprehension of lines 47-49 over tokens[i..].
RECURSIVE ProcessTokens(_, _)
ProcessTokens(tokens, i) ==
  IF i > Len(tokens) THEN <<>>
  ELSE IF IsAlnum(tokens[i]) /\ tokens[i] \notin StopWords
    THEN <<Lemmatize(tokens[i])>> \o ProcessTokens(tokens, i + 1)
  ELSE ProcessTokens(tokens, i + 1)

\* preprocess_query(query), lines 34-50; the result is the words of the
\* returned string.
preprocess_query(q) ==
  LET tokens == [i \in DOMAIN q |-> Lower(q[i])]
  IN ProcessTokens(tokens, 1)

\* preprocess_query(q) is called.
NormCall(q) ==
  /\ norm_pc = "idle"
  /\ raw_query' = q
  /\ once' = preprocess_query(q)
  /\ norm_pc' = "once"
  /\ UNCHANGED <<twice, ragVars, padVars, sessionVars, desktopVars>>

\* preprocess_query is called on the string the first call returned.
NormAgain ==
  /\ norm_pc = "once"
  /\ twice' = preprocess_query(once)
  /\ norm_pc' = "twice"
  /\ UNCHANGED <<raw_query, once, ragVars, padVars, sessionVars, desktopVars>>

\* Both results are dropped.
NormDone ==
  /\ norm_pc = "twice"
  /\ norm_pc' = "idle"
  /\ raw_query' = <<>>
  /\ once' = <<>>
  /\ twice' = <<>>
  /\ UNCHANGED <<ragVars, padVars, sessionVars, desktopVars>>

InitNorm ==
  /\ RagIdle
  /\ PadIdle /\ padSeen = {}
  /\ NormIdle
  /\ SessionStart
  /\ DesktopIdle /\ d_tree = <<>> /\ d_answer = ""

NextNorm ==
  \/ \E q \in SeqsUpTo(Words, MaxWords) : NormCall(q)
  \/ NormAgain
  \/ NormDone

SpecNorm == InitNorm /\ [][NextNorm]_vars

\* ------------------------------------------------- the chat session (tab1)
\* What generate_combined_response can return for q: one of its four returns,
\* with or without images.
TurnImages == {<<>>, <<ImageResult(CandFull)>>}
TurnResponses(q) ==
  {DirectReturn(c, imgs, q) : c \in DirectOutputs, imgs \in TurnImages}
  \cup {AgentReturn(AgentFinalAnswer, imgs, <<>>, q) : imgs \in TurnImages}
  \cup {InnerExcept(imgs, q) : imgs \in TurnImages}
  \cup {OuterExcept(q).response}

\* A mutant: the user turn is put right after the greeting.
OnSubmitInFront(msgs, text) ==
  IF text = "" THEN msgs
  ELSE <<msgs[1], [role |-> "user", content |-> text]>>
       \o SubSeq(msgs, 2, Len(msgs))

\* A mutant: the user turn is appended whatever st.chat_input returned.
OnSubmitAlways(msgs, text) ==
  Append(msgs, [role |-> "user", content |-> text])

\* Lines 590-592: the walrus test and the append of the user turn.
OnSubmit(msgs, text) ==
  IF text = "" THEN msgs
  ELSE Append(msgs, [role |-> "user", content |-> text])

\* A mutant: the list the button assigns has lost the greeting's text.
ClearedMessagesBlank == <<[role |-> "system", content |-> ""]>>

\* Lines 534-536: the list the Clear Chat History button assigns.
ClearedMessages ==
  <<[role |-> "system",
     content |-> "I am a multimodal assistant that can help you find information from both text and images in your documents."]>>

\* A mutant: the script run goes on whatever the browser has requested.
YieldStopsNever(requested) == FALSE

\* Streamlit's script runner at a point where the script yields to it (a
\* read of st.session_state, a call that draws an element): a requested
\* rerun stops the run there.
YieldStops(requested) == requested # "none"

\* The handler's locals are gone.
HandlerOver ==
  /\ ui_pc' = "idle"
  /\ chat_prompt' = ""
  /\ chat_response' = NoResponse

\* A script run in which st.chat_input returns text (lines 590-600).
ChatInput(text) ==
  /\ ui_pc = "idle"
  /\ rerun = "none"
  /\ turns < MaxTurns
  /\ messages' = OnSubmit(messages, text)
  /\ IF text = ""
     THEN /\ lastEvent' = "empty"
          /\ UNCHANGED <<ui_pc, chat_prompt, turns, submitted>>
     ELSE /\ lastEvent' = "user"
          /\ ui_pc' = "generating"
          /\ chat_prompt' = text
          /\ turns' = turns + 1
          /\ submitted' = Append(submitted, text)
  /\ stoppedAt' = 0
  /\ UNCHANGED <<chat_response, rerun, clickedIn, interrupted, ragVars,
                 padVars, normVars, desktopVars>>

\* response = generate_combined_response(prompt) returns (line 601).
GenerateReturns ==
  /\ ui_pc = "generating"
  /\ chat_response' \in TurnResponses(chat_prompt)
  /\ ui_pc' = "returned"
  /\ UNCHANGED <<messages, chat_prompt, rerun, clickedIn, stoppedAt, turns,
                 lastEvent, submitted, interrupted, ragVars, padVars, normVars, desktopVars>>

\* Line 604: the assistant turn is appended.
AppendAssistant ==
  /\ ui_pc = "returned"
  /\ ~YieldStops(rerun)
  /\ messages' = Append(messages,
                        [role |-> "assistant", content |-> chat_response])
  /\ ui_pc' = "appended"
  /\ lastEvent' = "assistant"
  /\ UNCHANGED <<chat_prompt, chat_response, rerun, clickedIn, stoppedAt,
                 turns, submitted, interrupted, ragVars, padVars, normVars, desktopVars>>

\* Lines 607-637: the answer is drawn; line 610 writes the query into the
\* dictionary, which is the one the history holds.
Render ==
  /\ ui_pc = "appended"
  /\ ~YieldStops(rerun)
  /\ messages' =
       [messages EXCEPT ![Len(messages)].content.original_query = chat_prompt]
  /\ HandlerOver
  /\ lastEvent' = "rendered"
  /\ UNCHANGED <<rerun, clickedIn, stoppedAt, turns, submitted, interrupted,
                 ragVars, padVars,
                 normVars, desktopVars>>

\* The user clicks Clear Chat History: the browser requests a rerun in which
\* st.button returns True.
ClickClear ==
  /\ rerun' = "clear"
  /\ clickedIn' = IF rerun # "clear" THEN ui_pc ELSE clickedIn
  /\ lastEvent' = "click"
  /\ UNCHANGED <<messages, ui_pc, chat_prompt, chat_response, stoppedAt,
                 turns, submitted, interrupted, ragVars, padVars, normVars, desktopVars>>

\* The running script reaches st.session_state (line 604) or st.markdown
\* (line 607) while a rerun is requested, and is stopped there.
ScriptStops ==
  /\ ui_pc \in {"returned", "appended"}
  /\ YieldStops(rerun)
  /\ stoppedAt' = IF ui_pc = "returned" THEN 604 ELSE 607
  /\ HandlerOver
  /\ lastEvent' = "stopped"
  /\ interrupted' = TRUE
  /\ UNCHANGED <<messages, rerun, clickedIn, turns, submitted, ragVars, padVars,
                 normVars, desktopVars>>

\* The requested run: st.button returns True, lines 534-538.
ClearHandler ==
  /\ ui_pc = "idle"
  /\ rerun = "clear"
  /\ messages' = ClearedMessages
  /\ rerun' = "none"
  /\ lastEvent' = "clear"
  /\ submitted' = <<>>
  /\ interrupted' = FALSE
  /\ UNCHANGED <<ui_pc, chat_prompt, chat_response, clickedIn, stoppedAt,
                 turns, ragVars, padVars, normVars, desktopVars>>

\* The user ticks or unticks a checkbox of the sidebar (lines 500-504): the
\* browser requests a rerun; a rerun that is already requested carries the
\* new value with it.
ClickToggle ==
  /\ rerun = "none"
  /\ rerun' = "toggle"
  /\ lastEvent' = "click"
  /\ UNCHANGED <<messages, ui_pc, chat_prompt, chat_response, clickedIn,
                 stoppedAt, turns, submitted, interrupted, ragVars, padVars,
                 normVars, desktopVars>>

\* The requested run: the script runs from the top with the new value of the
\* checkbox; st.button and st.chat_input return nothing.
ToggleHandler ==
  /\ ui_pc = "idle"
  /\ rerun = "toggle"
  /\ rerun' = "none"
  /\ lastEvent' = "toggle"
  /\ UNCHANGED <<messages, ui_pc, chat_prompt, chat_response, clickedIn,
                 stoppedAt, turns, submitted, interrupted, ragVars, padVars,
                 normVars, desktopVars>>

InitSession ==
  /\ RagIdle
  /\ PadIdle /\ padSeen = {}
  /\ NormIdle
  /\ SessionStart
  /\ DesktopIdle /\ d_tree = <<>> /\ d_answer = ""

NextSession ==
  \/ \E text \in Queries \cup {""} : ChatInput(text)
  \/ GenerateReturns
  \/ AppendAssistant
  \/ Render
  \/ ClickClear
  \/ ScriptStops
  \/ ClearHandler
  \/ ClickToggle
  \/ ToggleHandler

SpecSession == InitSession /\ [][NextSession]_vars

\* ------------------------------------------- desktop retriever (GEMINI_final)
\* What the entry can hold: nothing but blanks, or a query.
DesktopQueries == {<<>>, <<"Gradient", "descents">>, <<"the", "cans">>}

\* The chunks of the collection with the distance of a hit, in hundredths.
Hits == {<<"Gradient descent follows the negative gradient.", 12>>,
         <<"Backpropagation applies the chain rule.", 47>>}

\* The steps of perform_search that can raise, and what each raises: NLTK
\* raises LookupError when a corpus is missing, the embedding model a
\* RuntimeError, pymilvus a MilvusException.
SearchSteps == <<"preprocess_query", "get_embedding", "Collection", "search">>
Raises(step) ==
  CASE step = "preprocess_query" -> "LookupError"
    [] step = "get_embedding" -> "RuntimeError"
    [] step = "Collection" -> "MilvusException"
    [] step = "search" -> "MilvusException"

\* except MilvusException (line 97)
Caught(exception) == exception = "MilvusException"

\* What generate_answer_with_gemini returns: the model's text, or the
\* sentence of its handler.
GeminiAnswers ==
  {"Gradient descent follows the negative gradient of the loss.",
   "An error occurred while generating the answer."}

\* Lines 124-127: Submit is clicked.
SubmitQuery(q) ==
  /\ d_pc = "idle"
  /\ d_query' = q
  /\ IF q = <<>>
     THEN d_dialog' = "Input Error" /\ d_pc' = "done"
     ELSE d_dialog' = "none" /\ d_pc' = "preprocess_query"
  /\ UNCHANGED <<d_preprocessed, d_failed, d_exception, d_results, d_tree,
                 d_answer, ragVars, padVars, normVars, sessionVars>>

\* A step of perform_search raises: the handler of line 97 shows the error
\* and returns [], or the exception leaves perform_search and, submit_query
\* having no handler, leaves submit_query too.
StepRaises(step) ==
  /\ d_failed' = step
  /\ d_exception' = Raises(step)
  /\ IF Caught(Raises(step))
     THEN /\ d_dialog' = "Search Error"
          /\ d_results' = <<>>
          /\ d_pc' = "refresh"
     ELSE /\ d_pc' = "escaped"
          /\ UNCHANGED <<d_dialog, d_results>>

\* preprocessed_query = preprocess_query(query) (line 73)
Preprocess ==
  /\ d_pc = "preprocess_query"
  /\ \/ /\ d_preprocessed' = preprocess_query(d_query)
        /\ d_pc' = "get_embedding"
        /\ UNCHANGED <<d_failed, d_exception, d_results, d_dialog>>
     \/ StepRaises("preprocess_query") /\ UNCHANGED d_preprocessed
  /\ UNCHANGED <<d_query, d_tree, d_answer, ragVars, padVars, normVars,
                 sessionVars>>

\* user_vector = get_embedding(preprocessed_query, target_dim=384) (line 74)
Embed ==
  /\ d_pc = "get_embedding"
  /\ \/ /\ d_pc' = "Collection"
        /\ UNCHANGED <<d_failed, d_exception, d_results, d_dialog>>
     \/ StepRaises("get_embedding")
  /\ UNCHANGED <<d_query, d_preprocessed, d_tree, d_answer, ragVars, padVars,
                 normVars, sessionVars>>

\* collection = Collection(collection_name) (line 84)
OpenCollection ==
  /\ d_pc = "Collection"
  /\ \/ /\ d_pc' = "search"
        /\ UNCHANGED <<d_failed, d_exception, d_results, d_dialog>>
     \/ StepRaises("Collection")
  /\ UNCHANGED <<d_query, d_preprocessed, d_tree, d_answer, ragVars, padVars,
                 normVars, sessionVars>>

\* collection.search(...) and the return of line 95
Search ==
  /\ d_pc = "search"
  /\ \/ /\ d_results' \in SeqsUpTo(Hits, MaxHits)
        /\ d_pc' = "refresh"
        /\ UNCHANGED <<d_failed, d_exception, d_dialog>>
     \/ StepRaises("search")
  /\ UNCHANGED <<d_query, d_preprocessed, d_tree, d_answer, ragVars, padVars,
                 normVars, sessionVars>>

\* Lines 131-140: the tree is refilled, the answer is generated and shown.
Answer ==
  /\ d_pc = "refresh"
  /\ d_tree' = d_results
  /\ d_answer' \in GeminiAnswers
  /\ d_pc' = "done"
  /\ UNCHANGED <<d_query, d_preprocessed, d_failed, d_exception, d_results,
                 d_dialog, ragVars, padVars, normVars, sessionVars>>

\* The callback is over, by its return or by the exception that left it; its
\* locals are gone and the widgets keep what they show.
CallbackOver ==
  /\ d_pc \in {"done", "escaped"}
  /\ d_pc' = "idle"
  /\ d_query' = <<>>
  /\ d_preprocessed' = <<>>
  /\ d_failed' = "none"
  /\ d_exception' = "none"
  /\ d_results' = <<>>
  /\ d_dialog' = "none"
  /\ UNCHANGED <<d_tree, d_answer, ragVars, padVars, normVars, sessionVars>>

InitDesktop ==
  /\ RagIdle
  /\ PadIdle /\ padSeen = {}
  /\ NormIdle
  /\ SessionStart
  /\ DesktopIdle /\ d_tree = <<>> /\ d_answer = ""

NextDesktop ==
  \/ \E q \in DesktopQueries : SubmitQuery(q)
  \/ Preprocess
  \/ Embed
  \/ OpenCollection
  \/ Search
  \/ Answer
  \/ CallbackOver

SpecDesktop == InitDesktop /\ [][NextDesktop]_vars

\* ============================================================== properties
\* The positions of calls that are calls of op.
CallsOf(op) == {i \in DOMAIN calls : calls[i].op = op}

\* The call llm.invoke(prompt) with the fused prompt, if it was made.
DirectCalls ==
  {i \in CallsOf("llm.invoke") : prompt # <<>> /\ calls[i].arg = prompt}

\* The position of the first token tok of p.
IndexOf(p, tok) ==
  CHOOSE i \in DOMAIN p : p[i] = tok /\ \A j \in 1..(i - 1) : p[j] # tok

\* The three blocks of a built prompt, read back from its text.
TextBlock(p) ==
  SubSeq(p, IndexOf(p, "Text Context:") + 1, IndexOf(p, "Image References:") - 1)
ImageBlock(p) ==
  SubSeq(p, IndexOf(p, "Image References:") + 1, IndexOf(p, "INSTRUCTIONS:") - 1)
InstructionBlock(p) ==
  SubSeq(p, IndexOf(p, "INSTRUCTIONS:") + 1, Len(p))

\* A candidate whose payload is present and can be encoded.
Usable(match) == "image" \in DOMAIN match /\ match["image"] # "corrupt"

ResultFields == {"answer_text", "image_results", "has_images", "original_query"}

\* C1: generate_combined_response never lets an exception reach its caller;
\* whatever it returns has exactly the four result fields and an answer_text
\* that is a string and not None.
C1_NeverRaises ==
  /\ pc # "raised"
  /\ pc = "returned" =>
       /\ DOMAIN response = ResultFields
       /\ response.answer_text \in STRING
       /\ response.answer_text # NoneVal

\* The list search_images returned to generate_combined_response, as logged.
Retrieved(i) == calls[i].value

\* C1 witness: a turn returned although the text search failed, the image
\* search returned nothing, the direct call raised and the agent raised.
C1_Witness ==
  /\ pc = "returned"
  /\ textIndex.failed # "none"
  /\ \E i \in CallsOf("search_images") : Retrieved(i) = <<>>
  /\ \E i \in DirectCalls : calls[i].raised
  /\ \E i \in CallsOf("agent.run") : calls[i].raised

\* C2: the agent is constructed only directly after the direct call with the
\* fused prompt raised; the tier-3 apology is returned only after the direct
\* call raised and then the agent's construction or run raised; a direct
\* call that succeeds is the last call of the turn and its output is the
\* returned answer_text, with no agent constructed or run.
C2_TierOrder ==
  /\ \A i \in CallsOf("initialize_agent") :
       i > 1 /\ (i - 1) \in DirectCalls /\ calls[i - 1].raised
  /\ \A i \in CallsOf("agent.run") :
       \E j \in CallsOf("initialize_agent") : j < i /\ ~calls[j].raised
  /\ (pc = "returned" /\ response.answer_text = ApologyGenerating) =>
       \E i \in DirectCalls :
         /\ calls[i].raised
         /\ \E j \in CallsOf("initialize_agent") \cup CallsOf("agent.run") :
              j > i /\ calls[j].raised
  /\ \A i \in DirectCalls :
       ~calls[i].raised =>
         /\ pc = "returned"
         /\ i = Len(calls)
         /\ response.answer_text = calls[i].value
         /\ CallsOf("initialize_agent") \cup CallsOf("agent.run") = {}

\* C2 witness: the apology was returned after the direct call raised, the
\* agent was constructed and its run raised.
C2_Witness ==
  /\ pc = "returned"
  /\ response.answer_text = ApologyGenerating
  /\ \E j \in CallsOf("initialize_agent") : ~calls[j].raised
  /\ \E j \in CallsOf("agent.run") : calls[j].raised

\* C3 as stated: on every return path image_results is the list the image
\* retrieval returned for the query, and has_images and original_query
\* follow from it and the query.
C3_Original ==
  pc = "returned" =>
    /\ \E i \in CallsOf("search_images") :
         response.image_results = Retrieved(i)
    /\ response.has_images = (Len(response.image_results) > 0)
    /\ response.original_query = query

\* C3 amended: on the three tier returns (direct, agent, tier-3 apology)
\* image_results is the list search_images returned in this call, has_images
\* tells whether it is non-empty and original_query is the query; on the
\* return of the outer handler image_results is empty and has_images false.
C3_Amended ==
  pc = "returned" =>
    /\ response.original_query = query
    /\ returnLine \in {331, 362, 370} =>
         /\ Cardinality(CallsOf("search_images")) = 1
         /\ \A i \in CallsOf("search_images") :
              response.image_results = Retrieved(i)
         /\ response.has_images = (Len(response.image_results) > 0)
    /\ returnLine = 382 =>
         /\ response.image_results = <<>>
         /\ response.has_images = FALSE

\* C3 witness: the tier-3 apology came back with the retrieved images.
C3_Witness ==
  /\ pc = "returned"
  /\ returnLine = 370
  /\ Len(response.image_results) > 0

\* C4: when the direct call raised and agent.run returned, answer_text is
\* what agent.run returned and image_results is the list retrieved before
\* generation, whatever the agent's ImageSearch tool fetched meanwhile.
C4_AgentKeepsImages ==
  (/\ pc = "returned"
   /\ \E i \in DirectCalls : calls[i].raised
   /\ calls[Len(calls)].op = "agent.run"
   /\ ~calls[Len(calls)].raised) =>
    /\ response.answer_text = calls[Len(calls)].value
    /\ Cardinality(CallsOf("search_images")) = 1
    /\ \A i \in CallsOf("search_images") :
         /\ i < Len(calls)
         /\ response.image_results = Retrieved(i)

\* C4 witness: the agent succeeded after its ImageSearch tool fetched a
\* non-empty list different from the non-empty list retrieved before.
C4_Witness ==
  /\ pc = "returned"
  /\ returnLine = 362
  /\ Len(response.image_results) > 0
  /\ Len(agentImages) > 0
  /\ agentImages # response.image_results

\* C5 as stated: every return without a model answer carries one and the
\* same apology string.
C5_Original == Cardinality(apologiesSeen) <= 1

\* C5 amended: a return without a model answer carries one of two fixed
\* strings, chosen by the handler alone: the "generating an answer" apology
\* from the inner handler, the "processing your query" apology from the
\* outer handler.
C5_Amended ==
  /\ apologiesSeen \subseteq
       {"I encountered an error while generating an answer. Please try again or rephrase your question.",
        "I encountered an error while processing your query. Please try again or rephrase your question."}
  /\ (pc = "returned" /\ returnLine = 370) =>
       response.answer_text =
         "I encountered an error while generating an answer. Please try again or rephrase your question."
  /\ (pc = "returned" /\ returnLine = 382) =>
       response.answer_text =
         "I encountered an error while processing your query. Please try again or rephrase your question."

\* C5 witness: both apologies have been returned.
C5_Witness == Cardinality(apologiesSeen) = 2

\* C6: neither retriever raises; when a step of the text search or the
\* underlying image search fails the retriever's result is the empty list,
\* and the turn goes on to the prompt instead of the outer handler.
C6_RetrieversDegrade ==
  /\ \A i \in CallsOf("search_text_chunks") \cup CallsOf("search_images") :
       ~calls[i].raised
  /\ (CallsOf("search_text_chunks") # {} /\ textIndex.failed # "none") =>
       text_results = <<>>
  /\ pc = "search_images_done" =>
       /\ ~results.raised
       /\ matches.raised => results.value = <<>>
  /\ CallsOf("search_text_chunks") # {} => pc # "raised" /\ returnLine # 382

\* C6 witness: the text search failed, the underlying image search raised,
\* and search_images is about to return.
C6_Witness ==
  /\ pc = "search_images_done"
  /\ textIndex.failed # "none"
  /\ matches.raised

\* C7: the list search_images returns has an image payload in every entry,
\* and it holds exactly the usable candidates, in their order: the k-th
\* usable candidate is the k-th result.
C7_NoAbsentPayload ==
  /\ \A k \in DOMAIN image_results :
       /\ "image_data" \in DOMAIN image_results[k]
       /\ image_results[k].image_data # NoneVal
  /\ (pc = "search_images_done" /\ ~matches.raised) =>
       LET m == matches.value
           r == results.value
           pos(i) == Cardinality({j \in 1..i : Usable(m[j])})
       IN /\ \A k \in DOMAIN r :
               /\ "image_data" \in DOMAIN r[k]
               /\ r[k].image_data # NoneVal
          /\ Len(r) = Cardinality({i \in DOMAIN m : Usable(m[i])})
          /\ \A i \in DOMAIN m :
               Usable(m[i]) => r[pos(i)].image_data = <<"base64", m[i]["image"]>>

\* C7 witness: a candidate without a usable payload came before a usable
\* one, and the usable one is in the list about to be returned.
C7_Witness ==
  /\ pc = "search_images_done"
  /\ ~matches.raised
  /\ \E i, j \in DOMAIN matches.value :
       i < j /\ ~Usable(matches.value[i]) /\ Usable(matches.value[j])
  /\ Len(results.value) > 0

\* C8: with both retrievals empty the two context blocks of the prompt are
\* the two sentinels, and once control is past the direct call the model
\* has been invoked with that prompt.
C8_EmptySentinels ==
  (prompt # <<>> /\ text_results = <<>> /\ image_results = <<>>) =>
    /\ TextBlock(prompt) = <<"No relevant text information found.">>
    /\ ImageBlock(prompt) = <<"No relevant images found.">>
    /\ pc # "direct" => DirectCalls # {}

\* C8 witness: a direct answer was returned for a prompt built from nothing.
C8_Witness ==
  /\ pc = "returned"
  /\ returnLine = 331
  /\ CallsOf("search_images") # {}
  /\ text_results = <<>>
  /\ image_results = <<>>

\* C9 as stated: the instruction block of every prompt has four numbered
\* directives.
C9_Original ==
  prompt # <<>> => Len(InstructionBlock(prompt)) = 4

\* C9 amended: the instruction block of every prompt is the same five
\* numbered directives, whether the contexts are empty or not.
C9_Amended ==
  prompt # <<>> =>
    /\ Len(InstructionBlock(prompt)) = 5
    /\ InstructionBlock(prompt) = Directives

\* C9 witness: a prompt built from empty contexts.
C9_Witness ==
  /\ prompt # <<>>
  /\ text_results = <<>>
  /\ image_results = <<>>

\* C10: entry i of the Text Context block shows the module code,
\* "Lecture <lecture_number>" and the page of text match i; entry i of the
\* Image References block starts "Image i" and shows "Lecture
\* <lecture_number>" and the page of image match i, numbered from 1 in
\* result order.
C10_Rendering ==
  prompt # <<>> =>
    LET tb == TextBlock(prompt)
        ib == ImageBlock(prompt)
    IN /\ Len(text_results) > 0 => Len(tb) = 9 * Len(text_results) - 1
       /\ \A i \in DOMAIN text_results :
            LET b == 9 * (i - 1)
            IN /\ tb[b + 2] = text_results[i].module_code
               /\ tb[b + 3] = ", Lecture "
               /\ tb[b + 4] = text_results[i].lecture_number
               /\ tb[b + 5] = ", Page "
               /\ tb[b + 6] = text_results[i].page
       /\ Len(image_results) > 0 => Len(ib) = 12 * Len(image_results) - 1
       /\ \A i \in DOMAIN image_results :
            LET b == 12 * (i - 1)
            IN /\ ib[b + 1] = "Image "
               /\ ib[b + 2] = <<"1", "2", "3", "4", "5">>[i]
               /\ ib[b + 5] = ", Lecture "
               /\ ib[b + 6] = image_results[i].lecture_number
               /\ ib[b + 7] = ", Page "
               /\ ib[b + 8] = image_results[i].page_number

\* C10 witness: a text chunk and an image both tagged lecture 3, and
\* "Lecture 3" stands in both blocks.
C10_Witness ==
  /\ prompt # <<>>
  /\ \E i \in DOMAIN text_results : text_results[i].lecture_number = "3"
  /\ \E i \in DOMAIN image_results : image_results[i].lecture_number = "3"
  /\ Len(image_results) > 1
  /\ \E k \in 1..(Len(TextBlock(prompt)) - 1) :
       TextBlock(prompt)[k] = ", Lecture " /\ TextBlock(prompt)[k + 1] = "3"
  /\ \E k \in 1..(Len(ImageBlock(prompt)) - 1) :
       ImageBlock(prompt)[k] = ", Lecture " /\ ImageBlock(prompt)[k + 1] = "3"

\* The metadata keys search_text_chunks copies from a document.
TextMetadataKeys ==
  {"source", "page", "module_code", "module_name", "lecture_number",
   "lecture_title"}

\* C16: every document the text index returned has its match, in order, with
\* the document's content, and each of the six metadata fields is the
\* document's value when the document has it and "Unknown" when it has not.
C16_TextDefaults ==
  (CallsOf("search_text_chunks") # {} /\ textIndex.failed = "none") =>
    /\ Len(text_results) = Len(textIndex.docs)
    /\ \A i \in DOMAIN textIndex.docs :
         /\ text_results[i].content = textIndex.docs[i].page_content
         /\ \A k \in TextMetadataKeys :
              text_results[i][k] =
                IF k \in DOMAIN textIndex.docs[i].metadata
                THEN textIndex.docs[i].metadata[k]
                ELSE "Unknown"

\* C16 witness: a document without lecture metadata was returned next to a
\* tagged one, and its match carries "Unknown".
C16_Witness ==
  /\ CallsOf("search_text_chunks") # {}
  /\ Len(text_results) = 2
  /\ \E i \in DOMAIN text_results : text_results[i].lecture_number = "Unknown"
  /\ \E i \in DOMAIN text_results : text_results[i].lecture_number = "3"

\* The usable candidates of m, in order, as positions of m.
UsablePositions(m) == {i \in DOMAIN m : Usable(m[i])}
\* The position in the returned list of the usable candidate at position i.
ResultPosition(m, i) == Cardinality({j \in 1..i : Usable(m[j])})

\* C17 as stated: for a candidate with a payload each of lecture_code,
\* lecture_number, lecture_title, page_number and text is the upstream value
\* or "Unknown".
C17_Original ==
  (pc = "search_images_done" /\ ~matches.raised) =>
    \A i \in UsablePositions(matches.value) :
      \A k \in {"lecture_code", "lecture_number", "lecture_title",
                "page_number", "text"} :
        results.value[ResultPosition(matches.value, i)][k] =
          IF k \in DOMAIN matches.value[i] THEN matches.value[i][k]
          ELSE "Unknown"

\* C17 amended: lecture_code, lecture_number, lecture_title and page_number
\* are the upstream value or "Unknown"; text is the upstream value or
\* "No text available".
C17_Amended ==
  (pc = "search_images_done" /\ ~matches.raised) =>
    \A i \in UsablePositions(matches.value) :
      LET r == results.value[ResultPosition(matches.value, i)]
          m == matches.value[i]
      IN /\ \A k \in {"lecture_code", "lecture_number", "lecture_title",
                      "page_number"} :
              r[k] = IF k \in DOMAIN m THEN m[k] ELSE "Unknown"
         /\ r.text = IF "text" \in DOMAIN m THEN m.text
                     ELSE "No text available"

\* C17 witness: a candidate with a payload and no metadata is in the list
\* about to be returned, next to a fully tagged one.
C17_Witness ==
  /\ pc = "search_images_done"
  /\ ~matches.raised
  /\ \E i \in DOMAIN results.value : results.value[i].page_number = "Unknown"
  /\ \E i \in DOMAIN results.value : results.value[i].page_number = "12"

\* C18 as stated: on a turn whose direct generation succeeds the language
\* model is invoked exactly once, with the fused prompt.
C18_Original ==
  (pc = "returned" /\ returnLine = 331) =>
    /\ Cardinality(CallsOf("llm.invoke")) = 1
    /\ \A i \in CallsOf("llm.invoke") : calls[i].arg = prompt

\* C18 amended: on such a turn the language model is invoked exactly twice:
\* first with the fixed self-test text, and then, as the last call of the
\* turn, once with the fused prompt, which holds the query and the two
\* context blocks rendered from what was retrieved.
C18_Amended ==
  (pc = "returned" /\ returnLine = 331) =>
    /\ Cardinality(CallsOf("llm.invoke")) = 2
    /\ calls[2].op = "llm.invoke"
    /\ calls[2].arg = <<"Hello, are you working properly?">>
    /\ calls[Len(calls)].op = "llm.invoke"
    /\ Len(calls) > 2
    /\ LET p == calls[Len(calls)].arg
       IN /\ SubSeq(p, 1, 2) = <<"User Query: ", query>>
          /\ TextBlock(p) =
               (IF text_results = <<>>
                THEN <<"No relevant text information found.">>
                ELSE TextContext(text_results))
          /\ ImageBlock(p) =
               (IF image_results = <<>>
                THEN <<"No relevant images found.">>
                ELSE ImageContext(image_results))

\* C18 witness: a direct answer for a prompt with both kinds of context.
C18_Witness ==
  /\ pc = "returned"
  /\ returnLine = 331
  /\ Len(text_results) > 0
  /\ Len(image_results) > 0

\* Candidates that all carry a score, ranked by descending score.
RankedDescending(m) ==
  /\ \A i \in DOMAIN m : "similarity_score" \in DOMAIN m[i]
  /\ \A i, j \in DOMAIN m : i < j => m[i].similarity_score >= m[j].similarity_score

C11_PadOrTruncate ==
  pad_pc = "returned" =>
    /\ Len(padded) = target_dim
    /\ \A i \in 1..target_dim :
         padded[i] = IF i <= Len(vector) THEN vector[i] ELSE 0
    /\ Len(vector) > target_dim => padded = SubSeq(vector, 1, target_dim)
    /\ Len(vector) <= target_dim =>
         SubSeq(padded, 1, Len(vector)) = vector

\* C11 witness: a call that padded a vector with non-zero components has
\* returned, and calls before it truncated and left a vector unchanged.
C11_Witness ==
  /\ pad_pc = "returned"
  /\ padSeen = {"truncated", "padded", "unchanged"}
  /\ Len(vector) < target_dim
  /\ \E i \in DOMAIN vector : vector[i] # 0

\* C12 as stated: preprocess_query applied to its own output gives that
\* output again.
C12_Idempotent == norm_pc = "twice" => twice = once

\* C13: the Clear Chat History click is accepted in every state of the
\* session, and the run that handles it leaves the history equal to the
\* initial one: the system greeting alone.
C13_ClearResets ==
  /\ ENABLED ClickClear
  /\ lastEvent = "clear" =>
       /\ messages = InitialMessages
       /\ Len(messages) = 1
       /\ messages[1].role = "system"
       /\ rerun = "none"

\* C13 witness: a history with a finished turn was cleared.
C13_Witness ==
  /\ lastEvent = "clear"
  /\ clickedIn = "idle"
  /\ turns > 0

LastMessage == messages[Len(messages)]

\* C15: while generate_combined_response runs and when it has returned, the
\* user turn is already the last of the history; the history grows by one
\* turn at a time, by the user turn of a non-empty submission or, once
\* generate_combined_response has returned, by the assistant turn holding its
\* result, after which the handler appends nothing more; an empty submission
\* leaves the history as it was.
C15_TurnOrder ==
  /\ [](ui_pc \in {"generating", "returned"} =>
          /\ LastMessage.role = "user"
          /\ LastMessage.content = chat_prompt
          /\ chat_prompt # "")
  /\ [](ui_pc = "appended" =>
          /\ LastMessage = [role |-> "assistant", content |-> chat_response]
          /\ messages[Len(messages) - 1] =
               [role |-> "user", content |-> chat_prompt])
  /\ [][Len(messages') > Len(messages) =>
          /\ messages = SubSeq(messages', 1, Len(messages))
          /\ Len(messages') = Len(messages) + 1
          /\ \/ /\ ui_pc = "idle" /\ ui_pc' = "generating"
                /\ messages'[Len(messages')].role = "user"
             \/ /\ ui_pc = "returned" /\ ui_pc' = "appended"
                /\ messages'[Len(messages')].role = "assistant"]_vars
  /\ [][lastEvent' = "empty" => messages' = messages]_vars

\* C15 witness: two queries were submitted and each turn ran to its end.
C15_Witness ==
  /\ lastEvent = "rendered"
  /\ Len(messages) = 5
  /\ messages[2].role = "user" /\ messages[3].role = "assistant"
  /\ messages[4].role = "user" /\ messages[5].role = "assistant"

\* C20 as stated: whichever step of perform_search raised, no exception
\* leaves the click; perform_search has returned the empty list and
\* submit_query goes on to the answer step.
C20_SearchDegrades ==
  d_failed # "none" =>
    /\ d_pc # "escaped"
    /\ d_pc \in {"refresh", "done"}
    /\ d_results = <<>>

\* C21: in the dictionary of every return statement (lines 331, 362, 370 and
\* 382) has_images is true exactly when image_results is not empty, and
\* original_query is the query of the call.
C21_FlagsAgree ==
  (pc = "returned" /\ returnLine \in {331, 362, 370, 382}) =>
    /\ response.has_images = (response.image_results # <<>>)
    /\ response.original_query = query
    /\ query \in Queries

\* C21 witness: the agent's return carries images, after earlier calls came
\* back through the inner and the outer handler.
C21_Witness ==
  /\ pc = "returned"
  /\ returnLine = 362
  /\ response.has_images
  /\ response.image_results # <<>>
  /\ apologiesSeen = {ApologyGenerating, ApologyProcessing}

\* The user turns of the history, in order, as the queries they hold.
UserTurns ==
  [k \in 1..((Len(messages) - 1) \div 2) |-> messages[2 * k].content]

\* The history is the greeting followed by pairs of a user turn and the
\* assistant turn that answers it.
Alternates ==
  /\ Len(messages) % 2 = 1
  /\ messages[1].role = "system"
  /\ \A i \in 2..Len(messages) :
       messages[i].role = IF i % 2 = 0 THEN "user" ELSE "assistant"
  /\ \A i \in 2..Len(messages) :
       (i % 2 = 1) =>
         messages[i].content.original_query = messages[i - 1].content

\* Two turns are the same turn: a user turn holds a string and an assistant
\* turn a dictionary, so the roles are compared first.
SameTurn(a, b) == a.role = b.role /\ a.content = b.content

\* History old is the first part of history new.
IsPrefix(old, new) ==
  /\ Len(old) <= Len(new)
  /\ \A i \in DOMAIN old : SameTurn(old[i], new[i])

\* C22: the greeting is always the first element of the history; when every
\* submission and reset so far has run to completion the history is the
\* greeting followed by alternating user and assistant turns, the user turns
\* being the queries submitted since the last reset in their order; and the
\* history changes only by an append at its end or by the reset.
C22_HistoryShape ==
  /\ [](Len(messages) >= 1 /\ messages[1] = InitialMessages[1])
  /\ []((ui_pc = "idle" /\ rerun = "none" /\ ~interrupted) =>
          /\ Alternates
          /\ UserTurns = submitted
          /\ Cardinality({i \in DOMAIN messages : messages[i].role = "user"})
             = Cardinality({i \in DOMAIN messages :
                              messages[i].role = "assistant"}))
  /\ [][\/ IsPrefix(messages, messages') /\ Len(messages') = Len(messages)
        \/ IsPrefix(messages, messages') /\ Len(messages') = Len(messages) + 1
        \/ /\ rerun = "clear" /\ lastEvent' = "clear"
           /\ messages' = InitialMessages]_vars

\* C22 witness: a turn was answered, the history was reset, and the turn
\* submitted after the reset was answered too.
C22_Witness ==
  /\ ui_pc = "idle" /\ rerun = "none" /\ ~interrupted
  /\ lastEvent = "rendered"
  /\ turns = 2
  /\ Len(submitted) = 1
  /\ Len(messages) = 3
  /\ messages[3].content.original_query = submitted[1]

====
